---- MODULE Spec2Model ----
(***************************************************************************)
(* Dependency Graph Engine of repogen: src/dependency_analyzer/topo_sort.py *)
(*                                                                         *)
(* Component identifiers are modelled by the integers 1..7: identifier i   *)
(* is the i-th identifier in ascending lexicographic order ("A" = 1,       *)
(* "B" = 2, ...), so that Python's sorted() and heapq order on identifiers *)
(* is the order < on the integers.                                         *)
(*                                                                         *)
(* A Python dict {node: set} is a record [keys, deps]: keys is the         *)
(* sequence of the keys in insertion (= iteration) order, deps maps each   *)
(* key to its successor set.  The order in which a Python set is iterated  *)
(* is not fixed by the language; it is the variable iter, a permutation of *)
(* the identifiers drawn at the start of a run.  The keys of the caller's  *)
(* mapping are inserted in that same order.                                *)
(***************************************************************************)
EXTENDS Integers, Sequences, FiniteSets, TLC

VARIABLES
    graph,          \* the caller's mapping (the argument of the call)
    iter,           \* iteration order of sets and of the caller's keys
    pc,             \* position of the call in progress
    op,             \* the operation the caller invoked
    new_graph,      \* resolve_cycles: the working copy
    aliased,        \* keys whose successor-set object is the caller's own
    round_idx,      \* resolve_cycles: loop counter
    max_rounds,     \* resolve_cycles: round budget
    removed_edges,  \* resolve_cycles: edges removed so far, in order
    cycles,         \* cycle groups of the last detect_cycles call
    exit,           \* return statement resolve_cycles left through
    acyclic_graph,  \* topological_sort / dependency_first_dfs: resolved graph
    in_degree,      \* topological_sort: remaining dependency counts
    heap,           \* topological_sort: ready nodes
    result,         \* topological_sort / dependency_first_dfs: output list
    out_graph,      \* mapping returned by normalize / resolve_cycles
    cop,            \* the operation of filter_components_by_cis.py invoked
    cpc,            \* position of that call
    components,     \* main: the loaded components, identifier -> depends_on
    args,           \* main: the parsed command line
    written,        \* main: identifiers in the output file, or "nothing"
    status,         \* main: how the process ended
    out_edges,      \* the closed out-edge mapping the centralities are run on
    samples,        \* compute_betweenness: the samples argument
    sources,        \* compute_betweenness: the source indices, in order
    src_idx,        \* compute_betweenness: number of sources processed
    buf,            \* compute_betweenness: the reused work buffers
    cb,             \* compute_betweenness: accumulated dependency per index
    betweenness,    \* compute_betweenness: the mapping returned
    max_iter,       \* compute_pagerank: the max_iter argument
    pr_iter,        \* compute_pagerank: iterations completed
    rank,           \* compute_pagerank: current rank per index
    pagerank,       \* compute_pagerank: the mapping returned
    values,         \* _min_max_normalize: the argument
    normalized,     \* _min_max_normalize: the mapping returned
    metrics,        \* select_top_percent: score per node
    top_percent,    \* select_top_percent: the percentage
    selected,       \* select_top_percent: the list returned
    opc,            \* Orchestrator.process: position of the call
    test_mode,      \* Orchestrator: the test mode it was constructed with
    max_reader_search_attempts,  \* Orchestrator: flow_control setting
    context,        \* Orchestrator: search results merged into self.context
    reader_search_attempts,      \* process: searches started so far
    reader_response,             \* process: the Reader's last response
    invoked,        \* process: the sub-agents called so far, in call order
    output          \* process: the value returned

topoVars == <<graph, iter, pc, op, new_graph, aliased, round_idx, max_rounds,
              removed_edges, cycles, exit, acyclic_graph, in_degree, heap,
              result, out_graph>>

cisVars == <<cop, cpc, components, args, written, status, out_edges, samples,
             sources, src_idx, buf, cb, betweenness, max_iter, pr_iter, rank,
             pagerank, values, normalized, metrics, top_percent, selected>>

orchVars == <<opc, test_mode, max_reader_search_attempts, context,
              reader_search_attempts, reader_response, invoked, output>>

vars == <<topoVars, cisVars, orchVars>>

---------------------------------------------------------------------------
(* Bounds of the model *)

\* sparse inputs: at most MaxEdges edges over the identifiers SparseNodes
MaxEdges == 3
SparseNodes == 1..4
\* dense inputs: a complete digraph on CliqueNodes, any self-loops on it,
\* and any edges among TailNodes
CliqueNodes == 1..5
TailNodes == 6..7
Nodes == SparseNodes \cup CliqueNodes \cup TailNodes
\* centrality inputs: closed graphs on the identifiers 1..n, n in
\* CisNodeCounts, with at most MaxCisEdges edges; a sample of the sources is
\* drawn, and PageRank is run, on the graphs with n in SmallNodeCounts
CisNodeCounts == 0..4
SmallNodeCounts == 0..3
MaxCisEdges == 4
\* PageRank: the values of max_iter are 0..MaxIter
MaxIter == 2
\* score and value tables: every table over 1..n, n <= MaxTable, and a few
\* tables over 1..LargeTable
MaxTable == 3
LargeTable == 25
\* Orchestrator: max_reader_search_attempts is -1..MaxAttempts
MaxAttempts == 2

---------------------------------------------------------------------------
(* Helpers for Python containers *)

Range(s) == {s[i] : i \in 1..Len(s)}

Min(S) == CHOOSE x \in S : \A y \in S : x <= y

Max2(a, b) == IF a >= b THEN a ELSE b

\* sorted(S) for a set of identifiers
RECURSIVE Sorted(_)
Sorted(S) == IF S = {} THEN <<>> ELSE <<Min(S)>> \o Sorted(S \ {Min(S)})

\* the elements of the set S in the order a `for x in S` loop meets them
IterSet(S, ord) == SelectSeq(ord, LAMBDA x : x \in S)

EmptyDict == [keys |-> <<>>, deps |-> <<>>]

KeySet(d) == Range(d.keys)

\* d.get(n, set())
Get(d, n) == IF n \in KeySet(d) THEN d.deps[n] ELSE {}

\* the edges of a mapping as a set of pairs
Edges(d) == {<<u, v>> \in KeySet(d) \X Nodes : v \in d.deps[u]}

---------------------------------------------------------------------------
(* _normalize_graph *)

\* variant: a stray break leaves the loop over deps after the first key added
RECURSIVE AddMissingOneEach(_, _, _, _)
AddMissingOneEach(d, ord, i, added) ==
    IF i > Len(d.keys) THEN added
    ELSE LET deps == IterSet(d.deps[d.keys[i]], ord)
             new == SelectSeq(deps, LAMBDA x : x \notin KeySet(d) /\ x \notin Range(added))
         IN AddMissingOneEach(d, ord, i + 1,
                              IF new = <<>> THEN added ELSE Append(added, new[1]))

\* inner loops of _normalize_graph: the keys added for absent successors,
\* in the order the loop over items and over each deps set meets them
RECURSIVE AddMissing(_, _, _, _)
AddMissing(d, ord, i, added) ==
    IF i > Len(d.keys) THEN added
    ELSE LET deps == IterSet(d.deps[d.keys[i]], ord)
             new == SelectSeq(deps, LAMBDA x : x \notin KeySet(d) /\ x \notin Range(added))
         IN AddMissing(d, ord, i + 1, added \o new)

\* variant: a copy of the mapping that adds no key for an absent successor
NormalizeGraphNoAdd(d, ord) ==
    [keys |-> d.keys, deps |-> [n \in KeySet(d) |-> d.deps[n]]]

NormalizeGraph(d, ord) ==
    LET added == AddMissing(d, ord, 1, <<>>)
    IN [keys |-> d.keys \o added,
        deps |-> [n \in KeySet(d) \cup Range(added) |->
                     IF n \in KeySet(d) THEN d.deps[n] ELSE {}]]

\* variant: dict(graph), a shallow copy whose values are the caller's sets
NormalizeSharedAll(d) == KeySet(d)

\* line 26 builds every successor set with set(deps): a new object, so no
\* key of the returned mapping shares its set with the argument
NormalizeShared(d) == {}

---------------------------------------------------------------------------
(* detect_cycles: Tarjan's algorithm *)

\* state of one detect_cycles call; index[n] = -1 stands for `n not in index`
TarjanInit(g) ==
    [index |-> [n \in Nodes |-> -1],
     lowlink |-> [n \in Nodes |-> -1],
     counter |-> 0,
     stack |-> <<>>,
     result |-> <<>>]

\* the while True loop of lines 78-83: the popped nodes, last pushed first
RECURSIVE PopScc(_, _)
PopScc(stack, node) ==
    LET successor == stack[Len(stack)]
    IN IF successor = node THEN <<successor>>
       ELSE <<successor>> \o PopScc(SubSeq(stack, 1, Len(stack) - 1), node)

\* variant: every strongly connected component is reported
IsCycleAlways(g, scc) == Len(scc) >= 1

\* variant: only components with several members are reported
IsCycleNoSelfLoop(g, scc) == Len(scc) > 1

\* lines 85-91: which strongly connected components are reported
IsCycle(g, scc) ==
    \/ Len(scc) > 1
    \/ Len(scc) = 1 /\ scc[1] \in Get(g, scc[1])

RECURSIVE StrongConnect(_, _, _, _)
RECURSIVE ConsiderSuccessors(_, _, _, _, _, _)

\* variant: the branch for a successor that is on the stack is missing
RECURSIVE ConsiderSuccessorsNoBack(_, _, _, _, _, _)
ConsiderSuccessorsNoBack(g, ord, t, node, succs, i) ==
    IF i > Len(succs) THEN t
    ELSE LET successor == succs[i]
         IN IF t.index[successor] = -1
            THEN LET t1 == StrongConnect(g, ord, t, successor)
                     t2 == [t1 EXCEPT !.lowlink[node] =
                               IF t1.lowlink[successor] < @ THEN t1.lowlink[successor] ELSE @]
                 IN ConsiderSuccessorsNoBack(g, ord, t2, node, succs, i + 1)
            ELSE ConsiderSuccessorsNoBack(g, ord, t, node, succs, i + 1)

\* lines 65-72, over the successors succs[i..] of node
ConsiderSuccessors(g, ord, t, node, succs, i) ==
    IF i > Len(succs) THEN t
    ELSE LET successor == succs[i]
         IN IF t.index[successor] = -1
            THEN LET t1 == StrongConnect(g, ord, t, successor)
                     t2 == [t1 EXCEPT !.lowlink[node] =
                               IF t1.lowlink[successor] < @ THEN t1.lowlink[successor] ELSE @]
                 IN ConsiderSuccessors(g, ord, t2, node, succs, i + 1)
            ELSE IF successor \in Range(t.stack)
            THEN LET t2 == [t EXCEPT !.lowlink[node] =
                               IF t.index[successor] < @ THEN t.index[successor] ELSE @]
                 IN ConsiderSuccessors(g, ord, t2, node, succs, i + 1)
            ELSE ConsiderSuccessors(g, ord, t, node, succs, i + 1)

\* lines 56-91
StrongConnect(g, ord, t, node) ==
    LET t1 == [t EXCEPT !.index[node] = t.counter,
                        !.lowlink[node] = t.counter,
                        !.counter = @ + 1,
                        !.stack = Append(@, node)]
        t2 == ConsiderSuccessors(g, ord, t1, node, IterSet(Get(g, node), ord), 1)
    IN IF t2.lowlink[node] = t2.index[node]
       THEN LET scc == PopScc(t2.stack, node)
                rest == SubSeq(t2.stack, 1, Len(t2.stack) - Len(scc))
            IN [t2 EXCEPT !.stack = rest,
                          !.result = IF IsCycle(g, scc) THEN Append(@, scc) ELSE @]
       ELSE t2

\* lines 94-96: the loop over the keys of the normalized mapping
RECURSIVE VisitEach(_, _, _, _)
VisitEach(g, ord, t, i) ==
    IF i > Len(g.keys) THEN t
    ELSE IF t.index[g.keys[i]] = -1
    THEN VisitEach(g, ord, StrongConnect(g, ord, t, g.keys[i]), i + 1)
    ELSE VisitEach(g, ord, t, i + 1)

\* detect_cycles(graph): the list of cycle groups, each a list of nodes
DetectCycles(d, ord) ==
    LET g == NormalizeGraph(d, ord)
    IN VisitEach(g, ord, TarjanInit(g), 1).result

---------------------------------------------------------------------------
(* resolve_cycles: one round of the loop (lines 134-161) *)

\* variant: a node whose last dependency is removed is deleted from the mapping
RemoveEdgeDropEmpty(g, u, v) ==
    IF g.deps[u] \ {v} = {}
    THEN [keys |-> SelectSeq(g.keys, LAMBDA k : k # u),
          deps |-> [k \in KeySet(g) \ {u} |-> g.deps[k]]]
    ELSE [g EXCEPT !.deps[u] = @ \ {v}]

RemoveEdge(g, u, v) == [g EXCEPT !.deps[u] = @ \ {v}]

\* lines 139-145: the self-loop removed from the group, as a set of edges
SelfLoopOf(g, scc_set) ==
    LET loops == {u \in scc_set : u \in Get(g, u)}
    IN IF loops = {} THEN {} ELSE {<<Min(loops), Min(loops)>>}

\* variant: the smallest successor of the node, in the group or outside it
IntraEdgeOfAny(g, scc_set) ==
    LET srcs == {u \in scc_set : Get(g, u) \cap scc_set # {}}
    IN IF srcs = {} THEN {}
       ELSE LET u == Min(srcs) IN {<<u, Min(Get(g, u))>>}

\* variant: the largest successor inside the group instead of the smallest
IntraEdgeOfLargest(g, scc_set) ==
    LET srcs == {u \in scc_set : Get(g, u) \cap scc_set # {}}
    IN IF srcs = {} THEN {}
       ELSE LET u == Min(srcs)
                vs == Get(g, u) \cap scc_set
            IN {<<u, CHOOSE v \in vs : \A w \in vs : w <= v>>}

\* lines 150-161: the intra-group edge removed, as a set of edges
IntraEdgeOf(g, scc_set) ==
    LET srcs == {u \in scc_set : Get(g, u) \cap scc_set # {}}
    IN IF srcs = {} THEN {}
       ELSE LET u == Min(srcs) IN {<<u, Min(Get(g, u) \cap scc_set)>>}

\* the body of `for i, scc in enumerate(cycles)` for one group; b is
\* [g, changed, removed]
BreakGroup(b, scc) ==
    LET scc_set == Range(scc)
        loop == SelfLoopOf(b.g, scc_set)
        changed1 == b.changed \/ loop # {}
    IN IF loop # {}
       THEN LET e == CHOOSE x \in loop : TRUE
            IN [g |-> RemoveEdge(b.g, e[1], e[2]), changed |-> TRUE,
                removed |-> Append(b.removed, e)]
       ELSE IF changed1
       THEN b                                   \* line 146-147: continue
       ELSE LET edge == IntraEdgeOf(b.g, scc_set)
            IN IF edge = {} THEN b
               ELSE LET e == CHOOSE x \in edge : TRUE
                    IN [g |-> RemoveEdge(b.g, e[1], e[2]), changed |-> TRUE,
                        removed |-> Append(b.removed, e)]

RECURSIVE BreakGroups(_, _, _)
BreakGroups(b, cs, i) ==
    IF i > Len(cs) THEN b ELSE BreakGroups(BreakGroup(b, cs[i]), cs, i + 1)

\* lines 132-161: changed_this_round starts False each round
BreakRound(g, cs) == BreakGroups([g |-> g, changed |-> FALSE, removed |-> <<>>], cs, 1)

\* variant: the budget without its floor of 10
MaxRoundsNoFloor(g) == Len(g.keys) * 2

\* line 116
MaxRounds(g) == Max2(10, Len(g.keys) * 2)

---------------------------------------------------------------------------
(* topological_sort and dependency_first_dfs *)

\* lines 187-193: dependents[n], the nodes that depend on n
Dependents(g, n) == {m \in KeySet(g) : n \in g.deps[m]}

\* lines 188-193: in_degree[n] is the number of dependencies of n
InDegree(g) == [n \in KeySet(g) |-> Cardinality(g.deps[n])]

\* variant: the heap is seeded with every node
ReadyNodesAll(deg) == DOMAIN deg

\* line 197: the nodes the heap is seeded with
ReadyNodes(deg) == {n \in DOMAIN deg : deg[n] = 0}

\* lines 204-205: in_degree after the pop of node
Decrement(g, deg, node) ==
    [n \in DOMAIN deg |-> IF n \in Dependents(g, node) THEN deg[n] - 1 ELSE deg[n]]

\* variant: every dependent is pushed, whatever its remaining in-degree
PushedAll(g, deg, node) == Dependents(g, node)

\* lines 206-207: the dependents pushed after the pop of node
Pushed(g, deg, node) ==
    {n \in Dependents(g, node) : Decrement(g, deg, node)[n] = 0}

\* variant: the drained prefix alone, without the remaining nodes
TopoResultNoFallback(g, res) == res

\* lines 209-212: the list returned once the heap is empty
TopoResult(g, res) ==
    IF Len(res) # Len(g.keys)
    THEN res \o Sorted(KeySet(g) \ Range(res))
    ELSE res

RECURSIVE Dfs(_, _, _)
RECURSIVE DfsDeps(_, _, _, _)

\* line 246-247: the loop over sorted(acyclic_graph.get(node, set()))
DfsDeps(g, s, deps, i) ==
    IF i > Len(deps) THEN s ELSE DfsDeps(g, Dfs(g, s, deps[i]), deps, i + 1)

\* variant: the node is appended before its dependencies are visited
DfsPreorder(g, s, node) ==
    IF node \in s.visited THEN s
    ELSE IF node \in s.visiting THEN s
    ELSE LET s1 == [s EXCEPT !.visiting = @ \cup {node},
                             !.result = Append(@, node)]
             s2 == DfsDeps(g, s1, Sorted(Get(g, node)), 1)
         IN [s2 EXCEPT !.visiting = @ \ {node},
                       !.visited = @ \cup {node}]

\* variant: a node met again while it is being visited is emitted at once
DfsEmitOnBackEdge(g, s, node) ==
    IF node \in s.visited THEN s
    ELSE IF node \in s.visiting THEN [s EXCEPT !.result = Append(@, node)]
    ELSE LET s1 == [s EXCEPT !.visiting = @ \cup {node}]
             s2 == DfsDeps(g, s1, Sorted(Get(g, node)), 1)
         IN [s2 EXCEPT !.visiting = @ \ {node},
                       !.visited = @ \cup {node},
                       !.result = Append(@, node)]

\* variant: the test `node in visited` is missing
DfsNoVisited(g, s, node) ==
    IF node \in s.visiting THEN s
    ELSE LET s1 == [s EXCEPT !.visiting = @ \cup {node}]
             s2 == DfsDeps(g, s1, Sorted(Get(g, node)), 1)
         IN [s2 EXCEPT !.visiting = @ \ {node},
                       !.visited = @ \cup {node},
                       !.result = Append(@, node)]

\* lines 239-250: dfs(node); s is [visited, visiting, result]
Dfs(g, s, node) ==
    IF node \in s.visited THEN s
    ELSE IF node \in s.visiting THEN s
    ELSE LET s1 == [s EXCEPT !.visiting = @ \cup {node}]
             s2 == DfsDeps(g, s1, Sorted(Get(g, node)), 1)
         IN [s2 EXCEPT !.visiting = @ \ {node},
                       !.visited = @ \cup {node},
                       !.result = Append(@, node)]

\* lines 235-256
DfsOrder(g) ==
    DfsDeps(g, [visited |-> {}, visiting |-> {}, result |-> <<>>],
            Sorted(KeySet(g)), 1).result

---------------------------------------------------------------------------
(* The operations as functions of the mapping and the iteration order *)

\* lines 118-168: the loop of resolve_cycles from round `round` on
RECURSIVE ResolveLoop(_, _, _, _)
ResolveLoop(g, ord, round, max) ==
    IF round >= max THEN g
    ELSE LET cs == DetectCycles(g, ord)
             b == BreakRound(g, cs)
         IN IF cs = <<>> THEN g
            ELSE IF ~b.changed THEN b.g
            ELSE ResolveLoop(b.g, ord, round + 1, max)

ResolveCycles(d, ord) ==
    LET g == NormalizeGraph(d, ord)
    IN ResolveLoop(g, ord, 0, MaxRounds(g))

\* lines 201-212: the while loop of topological_sort and the fallback
RECURSIVE TopoDrain(_, _, _, _)
TopoDrain(g, deg, hp, res) ==
    IF hp = {} THEN TopoResult(g, res)
    ELSE LET node == Min(hp)
         IN TopoDrain(g, Decrement(g, deg, node),
                      (hp \ {node}) \cup Pushed(g, deg, node),
                      Append(res, node))

TopologicalSort(d, ord) ==
    LET g == NormalizeGraph(ResolveCycles(d, ord), ord)
    IN TopoDrain(g, InDegree(g), ReadyNodes(InDegree(g)), <<>>)

DependencyFirstDfs(d, ord) ==
    DfsOrder(NormalizeGraph(ResolveCycles(d, ord), ord))

---------------------------------------------------------------------------
(* build_graph_from_components (lines 258-287): comps is the mapping from  *)
(* each component identifier to its depends_on collection                  *)

\* variant: every dependency is kept, a component of the mapping or not
BuildGraphKeepAll(comps) == comps

\* lines 274-287: the keys in the order of components.items(), each with
\* the dependencies that are themselves components
BuildGraphFromComponents(comps) ==
    [keys |-> comps.keys,
     deps |-> [comp_id \in KeySet(comps) |->
                  {dep_id \in comps.deps[comp_id] : dep_id \in KeySet(comps)}]]

---------------------------------------------------------------------------
(* src/dependency_analyzer/filter_components_by_cis.py                    *)
(*                                                                         *)
(* A Python float is modelled by the exact fraction [n, d] in lowest terms *)
(* with d > 0, except in select_top_percent, where the rounding of the     *)
(* two float operations decides the result and is modelled bit by bit.     *)

RECURSIVE Gcd(_, _)
Gcd(a, b) == IF b = 0 THEN a ELSE Gcd(b, a % b)

Abs(x) == IF x < 0 THEN -x ELSE x

Min2(a, b) == IF a <= b THEN a ELSE b

Rat(n, d) ==
    LET g == Gcd(Abs(n), Abs(d))
        sgn == IF d < 0 THEN -1 ELSE 1
    IN [n |-> (sgn * n) \div g, d |-> (sgn * d) \div g]

RInt(k) == [n |-> k, d |-> 1]

\* the least common multiple of the denominators of a and b
Lcd(a, b) == (a.d \div Gcd(a.d, b.d)) * b.d

\* the numerator of a over the denominator m, a multiple of a.d
Over(a, m) == a.n * (m \div a.d)

RAdd(a, b) == Rat(Over(a, Lcd(a, b)) + Over(b, Lcd(a, b)), Lcd(a, b))

RSub(a, b) == Rat(Over(a, Lcd(a, b)) - Over(b, Lcd(a, b)), Lcd(a, b))

RMul(a, b) ==
    LET x == Rat(a.n, b.d)
        y == Rat(b.n, a.d)
    IN [n |-> x.n * y.n, d |-> x.d * y.d]

RDiv(a, b) ==
    IF b.n < 0 THEN RMul(a, [n |-> -b.d, d |-> -b.n])
    ELSE RMul(a, [n |-> b.d, d |-> b.n])

RLt(a, b) == Over(a, Lcd(a, b)) < Over(b, Lcd(a, b))

RLe(a, b) == Over(a, Lcd(a, b)) <= Over(b, Lcd(a, b))

RAbs(a) == [n |-> Abs(a.n), d |-> a.d]

\* min() / max() of a non-empty collection of floats
RMin(S) == CHOOSE x \in S : \A y \in S : RLe(x, y)

RMax(S) == CHOOSE x \in S : \A y \in S : RLe(y, x)

\* sum() of the floats s[i], i in the sequence of indices is
RECURSIVE RSum(_, _)
RSum(s, is) ==
    IF is = <<>> THEN RInt(0) ELSE RAdd(s[Head(is)], RSum(s, Tail(is)))

\* math.isclose(a, b) with its defaults rel_tol = 1e-09, abs_tol = 0.0:
\* abs(a - b) <= 1e-09 * max(abs(a), abs(b))
IsClose(a, b) ==
    \/ a = b
    \/ LET big == RMax({RAbs(a), RAbs(b)})
           q == RDiv(RAbs(RSub(a, b)), big)
       IN q.n <= q.d \div (10 ^ 9)

\* variant: the guard tests equality instead of closeness
MinMaxNormalizeExact(vals) ==
    IF DOMAIN vals = {} THEN vals
    ELSE LET min_v == RMin({vals[k] : k \in DOMAIN vals})
             max_v == RMax({vals[k] : k \in DOMAIN vals})
         IN IF min_v = max_v
            THEN [k \in DOMAIN vals |-> RInt(0)]
            ELSE [k \in DOMAIN vals |-> RDiv(RSub(vals[k], min_v), RSub(max_v, min_v))]

\* _min_max_normalize, lines 73-81
MinMaxNormalize(vals) ==
    IF DOMAIN vals = {} THEN vals
    ELSE LET min_v == RMin({vals[k] : k \in DOMAIN vals})
             max_v == RMax({vals[k] : k \in DOMAIN vals})
         IN IF IsClose(min_v, max_v)
            THEN [k \in DOMAIN vals |-> RInt(0)]
            ELSE [k \in DOMAIN vals |-> RDiv(RSub(vals[k], min_v), RSub(max_v, min_v))]

\* fraction bits of a double after its leading one bit
MantissaBits == 52

\* the position t >= 1 of the leading one bit of p/100 in binary, 0 < p < 100
RECURSIVE LeadingShift(_, _)
LeadingShift(p, t) == IF p * 2 ^ t >= 100 THEN t ELSE LeadingShift(p, t + 1)

\* binary long division by 100: the remainder r and the last quotient bit
\* after k more quotient bits
RECURSIVE DivideBits(_, _, _)
DivideBits(r, bit, k) ==
    IF k = 0 THEN [r |-> r, bit |-> bit]
    ELSE DivideBits((2 * r) % 100, IF 2 * r >= 100 THEN 1 ELSE 0, k - 1)

\* line 303, top_percent / 100.0 for an integer 0 < p < 100: the double
\* nearest to p/100 (ties to even) is (p * 2^e + c) / (100 * 2^e) with
\* e = MantissaBits + LeadingShift(p, 1); this is c
QuotientError(p) ==
    LET dv == DivideBits(p, 0, MantissaBits + LeadingShift(p, 1))
    IN IF 2 * dv.r < 100 THEN -dv.r
       ELSE IF 2 * dv.r > 100 THEN 100 - dv.r
       ELSE IF dv.bit = 1 THEN 50 ELSE -50

\* number of bits of the integer k >= 1
RECURSIVE BitLength(_)
BitLength(k) == IF k <= 1 THEN 1 ELSE 1 + BitLength(k \div 2)

\* variant: the ceiling of the exact product n * p / 100
CeilOfProductExact(n, p) == (n * p + 99) \div 100

\* line 303, int(math.ceil(n * (p / 100.0))) for an integer 0 < p < 100:
\* the exact product is n*p/100 + n*c/(100 * 2^e); when n*p/100 is an
\* integer K, the product rounds to a double above K exactly when the
\* excess is more than half the spacing of the doubles at K
CeilOfProduct(n, p) ==
    LET K == (n * p) \div 100
    IN IF (n * p) % 100 # 0 THEN K + 1
       ELSE IF K >= 1 /\ n * QuotientError(p) >
                            100 * 2 ^ (LeadingShift(p, 1) + BitLength(K) - 2)
       THEN K + 1
       ELSE K

\* s[:k]
Take(s, k) == SubSeq(s, 1, Min2(k, Len(s)))

\* line 307: sorted(ids, key=lambda cid: (-metrics[cid].score, cid))
RECURSIVE Ranked(_, _)
Ranked(ids, m) ==
    IF ids = {} THEN <<>>
    ELSE LET best == CHOOSE a \in ids : \A b \in ids \ {a} :
                        RLt(m[b], m[a]) \/ (m[b] = m[a] /\ a < b)
         IN <<best>> \o Ranked(ids \ {best}, m)

\* variant: at 100 percent and above the nodes come in ranking order
SelectTopPercentRanked(m, p) ==
    LET ids == DOMAIN m
    IN IF p <= 0 THEN <<>>
       ELSE IF p >= 100 THEN Ranked(ids, m)
       ELSE LET k == Max2(1, Min2(CeilOfProduct(Cardinality(ids), p), Cardinality(ids)))
            IN Take(Ranked(ids, m), k)

\* select_top_percent, lines 295-308; m maps each node to its score
SelectTopPercent(m, p) ==
    LET ids == DOMAIN m
    IN IF p <= 0 THEN <<>>
       ELSE IF p >= 100 THEN Sorted(ids)
       ELSE LET k == Max2(1, Min2(CeilOfProduct(Cardinality(ids), p), Cardinality(ids)))
            IN Take(Ranked(ids, m), k)

\* build_in_out_edges_from_components, lines 93-96: the out-edges, keyed
\* in the iteration order of set(components.keys())
OutEdgesOf(comps, ord) ==
    LET g == BuildGraphFromComponents(comps)
    IN [keys |-> IterSet(KeySet(comps), ord),
        deps |-> [node \in KeySet(comps) |-> Get(g, node)]]

\* lines 97-100: the in-edges of each node
InEdgesOf(oe) ==
    [dst \in KeySet(oe) |-> {src \in KeySet(oe) : dst \in oe.deps[src]}]

\* --pagerank-damping, default 0.85
Damping == Rat(85, 100)

\* line 140
PageRankStart(oe) == [node \in KeySet(oe) |-> Rat(1, Len(oe.keys))]

\* the share of its rank that src passes along each of its out-edges
EdgeShare(oe, prev) ==
    [src \in KeySet(oe) |->
        IF Cardinality(oe.deps[src]) > 0
        THEN RDiv(prev[src], RInt(Cardinality(oe.deps[src])))
        ELSE RInt(0)]

\* variant: the rank of dangling nodes is dropped instead of redistributed
PageRankStepNoDangling(oe, prev, damping) ==
    LET nodes == oe.keys
        n == Len(nodes)
        base == RDiv(RSub(RInt(1), damping), RInt(n))
    IN [node \in KeySet(oe) |->
          RAdd(base,
               RMul(damping,
                    RSum(EdgeShare(oe, prev),
                         SelectSeq(nodes, LAMBDA src : node \in oe.deps[src]))))]

\* lines 143-159: the rank after one iteration, from the rank prev
PageRankStep(oe, prev, damping) ==
    LET nodes == oe.keys
        n == Len(nodes)
        base == RDiv(RSub(RInt(1), damping), RInt(n))
        dangling_mass ==
            RSum(prev, SelectSeq(nodes, LAMBDA x : Cardinality(oe.deps[x]) = 0))
        dangling_share == RDiv(RMul(damping, dangling_mass), RInt(n))
    IN [node \in KeySet(oe) |->
          RAdd(RAdd(base, dangling_share),
               RMul(damping,
                    RSum(EdgeShare(oe, prev),
                         SelectSeq(nodes, LAMBDA src : node \in oe.deps[src]))))]

\* lines 162-164: diff < tol, with diff the L1 distance and tol = 1e-8
Converged(oe, r, prev) ==
    LET diff == RSum([node \in KeySet(oe) |-> RAbs(RSub(r[node], prev[node]))], oe.keys)
    IN diff.n <= (diff.d - 1) \div (10 ^ 8)

\* lines 142-166: the loop, with left iterations to go
RECURSIVE PageRankLoop(_, _, _, _)
PageRankLoop(oe, prev, damping, left) ==
    IF left = 0 THEN prev
    ELSE LET r == PageRankStep(oe, prev, damping)
         IN IF Converged(oe, r, prev) THEN r
            ELSE PageRankLoop(oe, r, damping, left - 1)

\* compute_pagerank, lines 116-166
ComputePagerank(oe, damping, iters) ==
    IF Len(oe.keys) = 0 THEN <<>>
    ELSE PageRankLoop(oe, PageRankStart(oe), damping, iters)

\* _build_index_graph, line 108: the index of a node, counted from 1
IndexOf(oe, node) == CHOOSE i \in 1..Len(oe.keys) : oe.keys[i] = node

\* _build_index_graph, lines 109-113
Adjacency(oe, ord) ==
    [u \in 1..Len(oe.keys) |->
        LET dsts == SelectSeq(IterSet(oe.deps[oe.keys[u]], ord),
                              LAMBDA d : d \in KeySet(oe))
        IN [j \in 1..Len(dsts) |-> IndexOf(oe, dsts[j])]]

\* lines 206-213: the work buffers as they are created
FreshBuffers(n) ==
    [q |-> <<>>, stack |-> <<>>, touched |-> <<>>,
     pred |-> [i \in 1..n |-> <<>>],
     sigma |-> [i \in 1..n |-> 0],
     dist |-> [i \in 1..n |-> -1],
     delta |-> [i \in 1..n |-> RInt(0)]]

\* variant: the source is not recorded in the touched list
StartPassUntouched(b, s) ==
    [b EXCEPT !.q = <<s>>, !.stack = <<>>, !.touched = <<>>,
              !.dist[s] = 0, !.sigma[s] = 1]

\* lines 216-223
StartPass(b, s) ==
    [b EXCEPT !.q = <<s>>, !.stack = <<>>, !.touched = <<s>>,
              !.dist[s] = 0, !.sigma[s] = 1]

\* lines 229-236: `for w in adjacency[v]` from position i of ws
RECURSIVE ScanAdjacency(_, _, _, _)
ScanAdjacency(b, v, ws, i) ==
    IF i > Len(ws) THEN b
    ELSE LET w == ws[i]
             dv == b.dist[v]
             b1 == IF b.dist[w] < 0
                   THEN [b EXCEPT !.dist[w] = dv + 1, !.q = Append(@, w),
                                  !.touched = Append(@, w)]
                   ELSE b
             b2 == IF b1.dist[w] = dv + 1
                   THEN [b1 EXCEPT !.sigma[w] = @ + b1.sigma[v],
                                   !.pred[w] = Append(@, v)]
                   ELSE b1
         IN ScanAdjacency(b2, v, ws, i + 1)

\* lines 225-236: `while q`
RECURSIVE Bfs(_, _)
Bfs(adj, b) ==
    IF b.q = <<>> THEN b
    ELSE LET v == Head(b.q)
             b1 == [b EXCEPT !.q = Tail(@), !.stack = Append(@, v)]
         IN Bfs(adj, ScanAdjacency(b1, v, adj[v], 1))

\* lines 240-242: `for v in pred[w]` from position i of ps
RECURSIVE FoldPred(_, _, _, _)
FoldPred(b, w, ps, i) ==
    IF i > Len(ps) THEN b
    ELSE LET v == ps[i]
             b1 == IF b.sigma[w] # 0
                   THEN [b EXCEPT !.delta[v] =
                            RAdd(@, RMul(Rat(b.sigma[v], b.sigma[w]),
                                         RAdd(RInt(1), b.delta[w])))]
                   ELSE b
         IN FoldPred(b1, w, ps, i + 1)

\* variant: the source's own dependency is accumulated too
RECURSIVE AccumulateWithSource(_, _)
AccumulateWithSource(c, s) ==
    IF c.b.stack = <<>> THEN c
    ELSE LET w == c.b.stack[Len(c.b.stack)]
             b1 == [c.b EXCEPT !.stack = SubSeq(@, 1, Len(@) - 1)]
             b2 == FoldPred(b1, w, b1.pred[w], 1)
         IN AccumulateWithSource(
                [b |-> b2, cb |-> [c.cb EXCEPT ![w] = RAdd(@, b2.delta[w])]], s)

\* lines 238-244: `while stack`; c is [b, cb]
RECURSIVE Accumulate(_, _)
Accumulate(c, s) ==
    IF c.b.stack = <<>> THEN c
    ELSE LET w == c.b.stack[Len(c.b.stack)]
             b1 == [c.b EXCEPT !.stack = SubSeq(@, 1, Len(@) - 1)]
             b2 == FoldPred(b1, w, b1.pred[w], 1)
             cb1 == IF w # s THEN [c.cb EXCEPT ![w] = RAdd(@, b2.delta[w])]
                    ELSE c.cb
         IN Accumulate([b |-> b2, cb |-> cb1], s)

\* lines 246-250: `for v in touched` from position i
RECURSIVE ResetTouched(_, _)
ResetTouched(b, i) ==
    IF i > Len(b.touched) THEN b
    ELSE LET v == b.touched[i]
         IN ResetTouched([b EXCEPT !.dist[v] = -1, !.sigma[v] = 0,
                                   !.delta[v] = RInt(0), !.pred[v] = <<>>], i + 1)

\* lines 215-250: the body of `for s in sources` for the source s
SourcePass(adj, c, s) ==
    LET c1 == Accumulate([b |-> Bfs(adj, StartPass(c.b, s)), cb |-> c.cb], s)
    IN [b |-> ResetTouched(c1.b, 1), cb |-> c1.cb]

\* lines 193-202: the source lists the call may run over; a sample is any
\* list of smp pairwise distinct indices
SourceLists(n, smp) ==
    IF smp = 0 \/ smp >= n THEN {[i \in 1..n |-> i]}
    ELSE {srcs \in [1..smp -> 1..n] :
            \A i, j \in 1..smp : srcs[i] = srcs[j] => i = j}

\* variant: the accumulated values are returned as they are
ScaleOfUnscaled(n, smp, srcs) == RInt(1)

\* lines 195-202
ScaleOf(n, smp, srcs) ==
    IF smp = 0 \/ smp >= n THEN RInt(1) ELSE Rat(n, Len(srcs))

\* lines 252-253
ScaledByNode(oe, acc, scale) ==
    [node \in KeySet(oe) |-> RMul(acc[IndexOf(oe, node)], scale)]

\* lines 215-250: the loop over the sources from position i
RECURSIVE SourcePasses(_, _, _, _)
SourcePasses(adj, c, srcs, i) ==
    IF i > Len(srcs) THEN c
    ELSE SourcePasses(adj, SourcePass(adj, c, srcs[i]), srcs, i + 1)

\* compute_betweenness, lines 169-253, run over the source list srcs
ComputeBetweenness(oe, ord, smp, srcs) ==
    LET n == Len(oe.keys)
    IN IF n = 0 THEN <<>>
       ELSE IF smp < 0 THEN [node \in KeySet(oe) |-> RInt(0)]
       ELSE ScaledByNode(oe,
                SourcePasses(Adjacency(oe, ord),
                             [b |-> FreshBuffers(n), cb |-> [i \in 1..n |-> RInt(0)]],
                             srcs, 1).cb,
                ScaleOf(n, smp, srcs))

\* compute_metrics, lines 256-292, with the weights alpha = beta = gamma = 1
\* and every node a source of the betweenness: the score of each node
ComputeMetrics(oe, ord, damping, iters) ==
    LET n == Len(oe.keys)
        in_e == InEdgesOf(oe)
        in_n == MinMaxNormalize([v \in KeySet(oe) |-> RInt(Cardinality(in_e[v]))])
        out_n == MinMaxNormalize([v \in KeySet(oe) |-> RInt(Cardinality(oe.deps[v]))])
        pr_n == MinMaxNormalize(ComputePagerank(oe, damping, iters))
        bc_n == MinMaxNormalize(ComputeBetweenness(oe, ord, n, [i \in 1..n |-> i]))
    IN [v \in KeySet(oe) |-> RAdd(RAdd(in_n[v], out_n[v]), RAdd(bc_n[v], pr_n[v]))]

\* write_filtered_components, lines 311-326: the identifiers written
WriteFiltered(comps, selected_ids) ==
    SelectSeq(selected_ids, LAMBDA cid : cid \in KeySet(comps))

---------------------------------------------------------------------------
(* Inputs *)

Ascending == Sorted(Nodes)

Reverse(s) == [i \in 1..Len(s) |-> s[Len(s) + 1 - i]]

Descending == Reverse(Ascending)

\* the iteration orders a run is started with
IterOrders == {Ascending, Descending}

\* the dict with key set K and edge set E, keys inserted in the order ord
MkDict(K, E, ord) ==
    [keys |-> IterSet(K, ord),
     deps |-> [n \in K |-> {v \in Nodes : <<n, v>> \in E}]]

SparseEdgeSets == {E \in SUBSET (SparseNodes \X SparseNodes) : Cardinality(E) <= MaxEdges}

CliqueEdges == {e \in CliqueNodes \X CliqueNodes : e[1] # e[2]}

CliqueLoops == {<<n, n>> : n \in CliqueNodes}

Idle ==
    /\ pc = "idle"
    /\ op = "none"
    /\ new_graph = EmptyDict
    /\ aliased = {}
    /\ round_idx = 0
    /\ max_rounds = 0
    /\ removed_edges = <<>>
    /\ cycles = <<>>
    /\ exit = "none"
    /\ acyclic_graph = EmptyDict
    /\ in_degree = <<>>
    /\ heap = {}
    /\ result = <<>>
    /\ out_graph = EmptyDict

\* parsed command line of main: print_top is <<>> for None, <<k>> for k
NoArgs ==
    [top_percent |-> 100, print_top |-> <<>>, print_top_percent |-> 0,
     pagerank_iters |-> 0]

\* the arguments of a call of filter_components_by_cis.py; none is in
\* progress when cop is "none"
NoCall ==
    [cop |-> "none", components |-> EmptyDict,
     args |-> NoArgs, out_edges |-> EmptyDict, samples |-> 0, max_iter |-> 0,
     values |-> <<>>, metrics |-> <<>>, top_percent |-> 0]

\* the state in which the call c has not started
CisIdle(c) ==
    /\ cop = c.cop
    /\ cpc = "idle"
    /\ components = c.components
    /\ args = c.args
    /\ written = "nothing"
    /\ status = "none"
    /\ out_edges = c.out_edges
    /\ samples = c.samples
    /\ sources = <<>>
    /\ src_idx = 0
    /\ buf = FreshBuffers(0)
    /\ cb = <<>>
    /\ betweenness = <<>>
    /\ max_iter = c.max_iter
    /\ pr_iter = 0
    /\ rank = <<>>
    /\ pagerank = <<>>
    /\ values = c.values
    /\ normalized = <<>>
    /\ metrics = c.metrics
    /\ top_percent = c.top_percent
    /\ selected = <<>>

\* a response of a sub-agent: the agent, whether its text holds an
\* <INFO_NEED>...</INFO_NEED> element, and the text inside that element
NoResponse == [agent |-> "none", tag |-> FALSE, text |-> ""]

\* the state in which process has not been called, for an Orchestrator
\* built with test mode t and attempt limit m whose context is c
OrchIdle(t, m, c) ==
    /\ opc = "idle"
    /\ test_mode = t
    /\ max_reader_search_attempts = m
    /\ context = c
    /\ reader_search_attempts = 0
    /\ reader_response = NoResponse
    /\ invoked = <<>>
    /\ output = NoResponse

\* no Orchestrator is in use
NoOrch == OrchIdle("None", 1, <<>>)

\* any mapping over SparseNodes with at most MaxEdges edges; a successor
\* need not be a key
InitSparse ==
    /\ iter \in IterOrders
    /\ \E E \in SparseEdgeSets, K \in SUBSET SparseNodes :
          /\ {e[1] : e \in E} \subseteq K
          /\ graph = MkDict(K, E, iter)
    /\ Idle
    /\ CisIdle(NoCall)
    /\ NoOrch

\* a complete digraph on CliqueNodes with any self-loops, beside any graph
\* on TailNodes
InitDense ==
    /\ iter \in IterOrders
    /\ \E L \in SUBSET CliqueLoops, T \in SUBSET (TailNodes \X TailNodes) :
          graph = MkDict(CliqueNodes \cup TailNodes, CliqueEdges \cup L \cup T, iter)
    /\ Idle
    /\ CisIdle(NoCall)
    /\ NoOrch

Init == InitSparse \/ InitDense

---------------------------------------------------------------------------
(* Operations *)

\* normalize(graph)
NormalizeCall ==
    /\ pc = "idle"
    /\ op' = "normalize"
    /\ out_graph' = NormalizeGraph(graph, iter)
    /\ pc' = "done"
    /\ UNCHANGED <<graph, iter, new_graph, aliased, round_idx, max_rounds,
                   removed_edges, cycles, exit, acyclic_graph, in_degree,
                   heap, result>>
    /\ UNCHANGED <<cisVars, orchVars>>

\* build_graph_from_components(graph): graph is read as the mapping from
\* each component to its depends_on
BuildGraphCall ==
    /\ pc = "idle"
    /\ op' = "build_graph_from_components"
    /\ out_graph' = BuildGraphFromComponents(graph)
    /\ pc' = "done"
    /\ UNCHANGED <<graph, iter, new_graph, aliased, round_idx, max_rounds,
                   removed_edges, cycles, exit, acyclic_graph, in_degree,
                   heap, result>>
    /\ UNCHANGED <<cisVars, orchVars>>

\* detect_cycles(graph)
DetectCall ==
    /\ pc = "idle"
    /\ op' = "detect_cycles"
    /\ cycles' = DetectCycles(graph, iter)
    /\ pc' = "done"
    /\ UNCHANGED <<graph, iter, new_graph, aliased, round_idx, max_rounds,
                   removed_edges, exit, acyclic_graph, in_degree, heap,
                   result, out_graph>>
    /\ UNCHANGED <<cisVars, orchVars>>

\* lines 112-116: entry of resolve_cycles, called by the caller or from
\* line 184 of topological_sort or line 232 of dependency_first_dfs
ResolveBegin ==
    /\ pc = "idle"
    /\ new_graph' = NormalizeGraph(graph, iter)
    /\ aliased' = NormalizeShared(graph)
    /\ max_rounds' = MaxRounds(new_graph')
    /\ round_idx' = 0
    /\ removed_edges' = <<>>
    /\ pc' = "resolve"
    /\ UNCHANGED <<graph, iter, op, cycles, exit, acyclic_graph, in_degree,
                   heap, result, out_graph>>
    /\ UNCHANGED <<cisVars, orchVars>>

\* the caller's mapping after the edges rem were removed from the working
\* copy: a set object the caller shares loses the edge too
CallerAfter(g, shared, rem) ==
    [g EXCEPT !.deps = [n \in DOMAIN @ |->
        IF n \in shared THEN @[n] \ {e[2] : e \in {x \in Range(rem) : x[1] = n}}
        ELSE @[n]]]

\* lines 118-165: one iteration of the loop over range(max_rounds)
ResolveRound ==
    /\ pc = "resolve"
    /\ round_idx < max_rounds
    /\ LET cs == DetectCycles(new_graph, iter)
           b == BreakRound(new_graph, cs)
       IN /\ cycles' = cs
          /\ IF cs = <<>>
             THEN /\ pc' = "resolved"
                  /\ exit' = "no_cycles"
                  /\ UNCHANGED <<graph, new_graph, removed_edges, round_idx>>
             ELSE /\ new_graph' = b.g
                  /\ removed_edges' = removed_edges \o b.removed
                  /\ graph' = CallerAfter(graph, aliased, b.removed)
                  /\ IF b.changed
                     THEN /\ round_idx' = round_idx + 1
                          /\ UNCHANGED <<pc, exit>>
                     ELSE /\ pc' = "resolved"
                          /\ exit' = "no_progress"
                          /\ UNCHANGED round_idx
    /\ UNCHANGED <<iter, op, aliased, max_rounds, acyclic_graph, in_degree,
                   heap, result, out_graph>>
    /\ UNCHANGED <<cisVars, orchVars>>

\* lines 167-168: the loop ran max_rounds times
ResolveExceeded ==
    /\ pc = "resolve"
    /\ round_idx = max_rounds
    /\ pc' = "resolved"
    /\ exit' = "max_rounds"
    /\ UNCHANGED <<graph, iter, op, new_graph, aliased, round_idx, max_rounds,
                   removed_edges, cycles, acyclic_graph, in_degree, heap,
                   result, out_graph>>
    /\ UNCHANGED <<cisVars, orchVars>>

\* resolve_cycles(graph) returns to the caller
ResolveReturn ==
    /\ pc = "resolved"
    /\ op' = "resolve_cycles"
    /\ out_graph' = new_graph
    /\ pc' = "done"
    /\ UNCHANGED <<graph, iter, new_graph, aliased, round_idx, max_rounds,
                   removed_edges, cycles, exit, acyclic_graph, in_degree,
                   heap, result>>
    /\ UNCHANGED <<cisVars, orchVars>>

\* topological_sort, lines 184-199
TopoBegin ==
    /\ pc = "resolved"
    /\ op' = "topological_sort"
    /\ acyclic_graph' = NormalizeGraph(new_graph, iter)
    /\ in_degree' = InDegree(acyclic_graph')
    /\ heap' = ReadyNodes(in_degree')
    /\ result' = <<>>
    /\ pc' = "topo"
    /\ UNCHANGED <<graph, iter, new_graph, aliased, round_idx, max_rounds,
                   removed_edges, cycles, exit, out_graph>>
    /\ UNCHANGED <<cisVars, orchVars>>

\* topological_sort, lines 201-207: one iteration of `while heap`
TopoPop ==
    /\ pc = "topo"
    /\ heap # {}
    /\ LET node == Min(heap)
       IN /\ result' = Append(result, node)
          /\ in_degree' = Decrement(acyclic_graph, in_degree, node)
          /\ heap' = (heap \ {node}) \cup Pushed(acyclic_graph, in_degree, node)
    /\ UNCHANGED <<graph, iter, pc, op, new_graph, aliased, round_idx,
                   max_rounds, removed_edges, cycles, exit, acyclic_graph,
                   out_graph>>
    /\ UNCHANGED <<cisVars, orchVars>>

\* topological_sort, lines 209-214
TopoFinish ==
    /\ pc = "topo"
    /\ heap = {}
    /\ result' = TopoResult(acyclic_graph, result)
    /\ pc' = "done"
    /\ UNCHANGED <<graph, iter, op, new_graph, aliased, round_idx, max_rounds,
                   removed_edges, cycles, exit, acyclic_graph, in_degree,
                   heap, out_graph>>
    /\ UNCHANGED <<cisVars, orchVars>>

\* dependency_first_dfs, lines 232-256
DfsCall ==
    /\ pc = "resolved"
    /\ op' = "dependency_first_dfs"
    /\ acyclic_graph' = NormalizeGraph(new_graph, iter)
    /\ result' = DfsOrder(acyclic_graph')
    /\ pc' = "done"
    /\ UNCHANGED <<graph, iter, new_graph, aliased, round_idx, max_rounds,
                   removed_edges, cycles, exit, in_degree, heap, out_graph>>
    /\ UNCHANGED <<cisVars, orchVars>>

Next ==
    \/ NormalizeCall
    \/ BuildGraphCall
    \/ DetectCall
    \/ ResolveBegin
    \/ ResolveRound
    \/ ResolveExceeded
    \/ ResolveReturn
    \/ TopoBegin
    \/ TopoPop
    \/ TopoFinish
    \/ DfsCall

Spec == Init /\ [][Next]_vars

---------------------------------------------------------------------------
(* Calls of filter_components_by_cis.py *)

\* closed graphs on 1..n with at most MaxCisEdges edges, keyed in the order ord
CisGraphs(n, ord) ==
    {MkDict(1..n, E, ord) :
        E \in {F \in SUBSET ((1..n) \X (1..n)) : Cardinality(F) <= MaxCisEdges}}

\* component mappings over 1..3 with at most MaxEdges dependencies; a
\* dependency need not be a component
CisComponents(ord) ==
    UNION {{MkDict(K, E, ord) :
               E \in {F \in SUBSET (K \X (1..3)) : Cardinality(F) <= MaxEdges}} :
           K \in SUBSET (1..3)}

ScoreValues == {RInt(0), Rat(1, 2), RInt(1)}

NormValues == {RInt(0), RInt(1), RInt(3), RInt(2 * 10 ^ 9), RInt(2 * 10 ^ 9 + 1)}

Percents == {-5, 0, 1, 28, 50, 99, 100, 150}

\* the tables over 1..n with entries in V, n <= MaxTable
Tables(V) == UNION {[1..n -> V] : n \in 0..MaxTable}

LargeTables == {[i \in 1..LargeTable |-> RInt((i * a) % 3)] : a \in 0..2}

\* samples: disabled, exact, at least the node count, and (small graphs) a
\* proper sample
SampleArgs(n) ==
    {-1, 0, n, n + 1} \cup (IF n \in SmallNodeCounts THEN 1..(n - 1) ELSE {})

MainArgs ==
    [top_percent : {0, 50, 100}, print_top : {<<>>, <<1>>},
     print_top_percent : {0, 50}, pagerank_iters : {MaxIter}]

InitSelect ==
    \E m \in Tables(ScoreValues) \cup LargeTables, p \in Percents :
       /\ iter = Ascending
       /\ CisIdle([NoCall EXCEPT !.cop = "select_top_percent", !.metrics = m,
                                 !.top_percent = p])

InitMinMax ==
    \E v \in Tables(NormValues) :
       /\ iter = Ascending
       /\ CisIdle([NoCall EXCEPT !.cop = "_min_max_normalize", !.values = v])

InitBetweenness ==
    /\ iter \in IterOrders
    /\ \E n \in CisNodeCounts :
          \E g \in CisGraphs(n, iter), k \in SampleArgs(n) :
             CisIdle([NoCall EXCEPT !.cop = "compute_betweenness", !.out_edges = g,
                                   !.samples = k])

InitPagerank ==
    /\ iter \in IterOrders
    /\ \E n \in SmallNodeCounts :
          \E g \in CisGraphs(n, iter), k \in 0..MaxIter :
             CisIdle([NoCall EXCEPT !.cop = "compute_pagerank", !.out_edges = g,
                                   !.max_iter = k])

InitMain ==
    /\ iter \in IterOrders
    /\ \E c \in CisComponents(iter), a \in MainArgs :
          CisIdle([NoCall EXCEPT !.cop = "main", !.components = c, !.args = a])

InitCis ==
    /\ graph = EmptyDict
    /\ Idle
    /\ NoOrch
    /\ InitSelect \/ InitMinMax \/ InitBetweenness \/ InitPagerank \/ InitMain

mainVars == <<components, args, written, status>>

bcVars == <<samples, sources, src_idx, buf, cb, betweenness>>

prVars == <<max_iter, pr_iter, rank, pagerank>>

mmVars == <<values, normalized>>

selVars == <<metrics, top_percent, selected>>

\* select_top_percent(metrics, top_percent)
SelectCall ==
    /\ cop = "select_top_percent"
    /\ cpc = "idle"
    /\ selected' = SelectTopPercent(metrics, top_percent)
    /\ cpc' = "done"
    /\ UNCHANGED <<topoVars, orchVars, cop, mainVars, out_edges, bcVars, prVars, mmVars,
                   metrics, top_percent>>

\* _min_max_normalize(values)
MinMaxCall ==
    /\ cop = "_min_max_normalize"
    /\ cpc = "idle"
    /\ normalized' = MinMaxNormalize(values)
    /\ cpc' = "done"
    /\ UNCHANGED <<topoVars, orchVars, cop, mainVars, out_edges, bcVars, prVars, values,
                   selVars>>

\* compute_pagerank, lines 125-140
PagerankBegin ==
    /\ cop = "compute_pagerank"
    /\ cpc = "idle"
    /\ IF Len(out_edges.keys) = 0
       THEN /\ pagerank' = <<>>
            /\ cpc' = "done"
            /\ UNCHANGED rank
       ELSE /\ rank' = PageRankStart(out_edges)
            /\ cpc' = "pr_loop"
            /\ UNCHANGED pagerank
    /\ pr_iter' = 0
    /\ UNCHANGED <<topoVars, orchVars, cop, mainVars, out_edges, bcVars, max_iter, mmVars,
                   selVars>>

\* compute_pagerank, lines 142-164: one iteration of the loop
PagerankIterate ==
    /\ cop = "compute_pagerank"
    /\ cpc = "pr_loop"
    /\ pr_iter < max_iter
    /\ rank' = PageRankStep(out_edges, rank, Damping)
    /\ pr_iter' = pr_iter + 1
    /\ cpc' = IF Converged(out_edges, rank', rank) THEN "pr_break" ELSE "pr_loop"
    /\ UNCHANGED <<topoVars, orchVars, cop, mainVars, out_edges, bcVars, max_iter, pagerank,
                   mmVars, selVars>>

\* compute_pagerank, line 166
PagerankReturn ==
    /\ cop = "compute_pagerank"
    /\ \/ cpc = "pr_break"
       \/ cpc = "pr_loop" /\ pr_iter = max_iter
    /\ pagerank' = rank
    /\ cpc' = "done"
    /\ UNCHANGED <<topoVars, orchVars, cop, mainVars, out_edges, bcVars, max_iter, pr_iter,
                   rank, mmVars, selVars>>

\* compute_betweenness, lines 188-213
BetweennessBegin ==
    /\ cop = "compute_betweenness"
    /\ cpc = "idle"
    /\ LET n == Len(out_edges.keys)
       IN IF n = 0
          THEN /\ betweenness' = <<>>
               /\ cpc' = "done"
               /\ UNCHANGED <<sources, buf, cb>>
          ELSE IF samples < 0
          THEN /\ betweenness' = [node \in KeySet(out_edges) |-> RInt(0)]
               /\ cpc' = "done"
               /\ UNCHANGED <<sources, buf, cb>>
          ELSE /\ sources' \in SourceLists(n, samples)
               /\ cb' = [i \in 1..n |-> RInt(0)]
               /\ buf' = FreshBuffers(n)
               /\ cpc' = "bc_loop"
               /\ UNCHANGED betweenness
    /\ src_idx' = 0
    /\ UNCHANGED <<topoVars, orchVars, cop, mainVars, out_edges, samples, prVars, mmVars,
                   selVars>>

\* compute_betweenness, lines 215-250: the pass of one source
BetweennessPass ==
    /\ cop = "compute_betweenness"
    /\ cpc = "bc_loop"
    /\ src_idx < Len(sources)
    /\ LET c == SourcePass(Adjacency(out_edges, iter), [b |-> buf, cb |-> cb],
                           sources[src_idx + 1])
       IN /\ buf' = c.b
          /\ cb' = c.cb
    /\ src_idx' = src_idx + 1
    /\ UNCHANGED <<topoVars, orchVars, cop, cpc, mainVars, out_edges, samples, sources,
                   betweenness, prVars, mmVars, selVars>>

\* compute_betweenness, lines 252-253
BetweennessReturn ==
    /\ cop = "compute_betweenness"
    /\ cpc = "bc_loop"
    /\ src_idx = Len(sources)
    /\ betweenness' = ScaledByNode(out_edges, cb,
                                   ScaleOf(Len(out_edges.keys), samples, sources))
    /\ cpc' = "done"
    /\ UNCHANGED <<topoVars, orchVars, cop, mainVars, out_edges, samples, sources, src_idx,
                   buf, cb, prVars, mmVars, selVars>>

\* main, lines 373-382: the components are loaded and the edges built
MainLoad ==
    /\ cop = "main"
    /\ cpc = "idle"
    /\ out_edges' = OutEdgesOf(components, iter)
    /\ IF Len(out_edges'.keys) = 0
       THEN /\ written' = WriteFiltered(components, <<>>)
            /\ status' = "exit_0"
            /\ cpc' = "done"
       ELSE /\ cpc' = "main_metrics"
            /\ UNCHANGED <<written, status>>
    /\ UNCHANGED <<topoVars, orchVars, cop, components, args, bcVars, prVars, mmVars,
                   selVars>>

\* variant: the output file is not written before the check of the
\* printing options
MainFilterDeferWrite ==
    /\ cop = "main"
    /\ cpc = "main_metrics"
    /\ metrics' = ComputeMetrics(out_edges, iter, Damping, args.pagerank_iters)
    /\ selected' = SelectTopPercent(metrics', args.top_percent)
    /\ cpc' = "main_check"
    /\ UNCHANGED <<topoVars, orchVars, cop, components, args, written, status, out_edges,
                   bcVars, prVars, mmVars, top_percent>>

\* main, lines 384-405: the scores, the selection and the output file
MainFilter ==
    /\ cop = "main"
    /\ cpc = "main_metrics"
    /\ metrics' = ComputeMetrics(out_edges, iter, Damping, args.pagerank_iters)
    /\ selected' = SelectTopPercent(metrics', args.top_percent)
    /\ written' = WriteFiltered(components, selected')
    /\ cpc' = "main_check"
    /\ UNCHANGED <<topoVars, orchVars, cop, components, args, status, out_edges, bcVars,
                   prVars, mmVars, top_percent>>

\* main, lines 408-409
MainCheck ==
    /\ cop = "main"
    /\ cpc = "main_check"
    /\ IF args.print_top # <<>> /\ args.print_top_percent > 0
       THEN /\ status' = "usage_error"
            /\ cpc' = "done"
       ELSE /\ cpc' = "main_print"
            /\ UNCHANGED status
    /\ UNCHANGED <<topoVars, orchVars, cop, components, args, written, out_edges, bcVars,
                   prVars, mmVars, selVars>>

\* main, lines 411-460: the summary is printed
MainPrint ==
    /\ cop = "main"
    /\ cpc = "main_print"
    /\ status' = "exit_0"
    /\ cpc' = "done"
    /\ UNCHANGED <<topoVars, orchVars, cop, components, args, written, out_edges, bcVars,
                   prVars, mmVars, selVars>>

NextCis ==
    \/ SelectCall
    \/ MinMaxCall
    \/ PagerankBegin
    \/ PagerankIterate
    \/ PagerankReturn
    \/ BetweennessBegin
    \/ BetweennessPass
    \/ BetweennessReturn
    \/ MainLoad
    \/ MainFilter
    \/ MainCheck
    \/ MainPrint

SpecCis == InitCis /\ [][NextCis]_vars

---------------------------------------------------------------------------
(* src/agent/task/orchestrator.py: one call of Orchestrator.process       *)
(*                                                                         *)
(* The Reader, the Searcher and the Writer are collaborators: a call of    *)
(* one of them returns a response the model draws from a small set.        *)

\* the texts found inside <INFO_NEED>...</INFO_NEED>
InfoNeedTexts == {"true", " True ", "false", "true or false", ""}

\* the responses of the Reader: without the element, or with one of the texts
ReaderResponses ==
    {[agent |-> "reader", tag |-> FALSE, text |-> ""]}
        \cup {[agent |-> "reader", tag |-> TRUE, text |-> t] : t \in InfoNeedTexts}

\* line 171: match.group(1).strip().lower()
StripLower(t) == IF t = " True " THEN "true" ELSE t

\* lines 170-171: needs_info
NeedsInfo(r) == r.tag /\ StripLower(r.text) = "true"

\* variant: the limit is passed when the attempts exceed it
AttemptsExhaustedLate(attempts, limit) == attempts > limit

\* line 176
AttemptsExhausted(attempts, limit) == attempts >= limit

\* lines 269-362, _update_context: the results of a search are merged into
\* the context; the context is the list of the searches merged
UpdateContext(ctx, search_results) == Append(ctx, search_results)

\* the response of the Writer
WriterOutput == [agent |-> "writer", tag |-> FALSE, text |-> "set"]

TestModes == {"None", "reader_searcher", "context_print"}

AttemptLimits == -1..MaxAttempts

\* an Orchestrator as constructed or as an earlier call left it
InitOrch ==
    /\ graph = EmptyDict
    /\ iter = Ascending
    /\ Idle
    /\ CisIdle(NoCall)
    /\ \E t \in TestModes, m \in AttemptLimits, c \in {<<>>, <<0>>} :
          OrchIdle(t, m, c)

\* process, lines 142-153
ProcessBegin ==
    /\ opc = "idle"
    /\ test_mode \in TestModes
    /\ context' = <<>>
    /\ reader_search_attempts' = 0
    /\ reader_response' = [NoResponse EXCEPT !.agent = "reader"]
    /\ opc' = "reader"
    /\ UNCHANGED <<topoVars, cisVars, test_mode, max_reader_search_attempts,
                   invoked, output>>

\* process, lines 156-185: the Reader is called and its answer decides
\* whether the loop is left or a search is started
ReaderCall ==
    /\ opc = "reader"
    /\ \E r \in ReaderResponses :
          /\ reader_response' = r
          /\ IF ~NeedsInfo(r)
             THEN /\ opc' = "after_loop"
                  /\ UNCHANGED reader_search_attempts
             ELSE IF AttemptsExhausted(reader_search_attempts,
                                       max_reader_search_attempts)
             THEN /\ opc' = "after_loop"
                  /\ UNCHANGED reader_search_attempts
             ELSE /\ opc' = "searcher"
                  /\ reader_search_attempts' = reader_search_attempts + 1
    /\ invoked' = Append(invoked, "reader")
    /\ UNCHANGED <<topoVars, cisVars, test_mode, max_reader_search_attempts,
                   context, output>>

\* process, lines 186-218: the Searcher is called and its results are
\* merged into the context
SearcherCall ==
    /\ opc = "searcher"
    /\ invoked' = Append(invoked, "searcher")
    /\ context' = UpdateContext(context, reader_search_attempts)
    /\ opc' = "reader"
    /\ UNCHANGED <<topoVars, cisVars, test_mode, max_reader_search_attempts,
                   reader_search_attempts, reader_response, output>>

\* process, lines 220-226
AfterLoop ==
    /\ opc = "after_loop"
    /\ IF test_mode = "reader_searcher"
       THEN /\ output' = reader_response
            /\ opc' = "done"
       ELSE /\ opc' = "writer"
            /\ UNCHANGED output
    /\ UNCHANGED <<topoVars, cisVars, test_mode, max_reader_search_attempts,
                   context, reader_search_attempts, reader_response, invoked>>

\* process, lines 229-249
WriterCall ==
    /\ opc = "writer"
    /\ invoked' = Append(invoked, "writer")
    /\ output' = WriterOutput
    /\ opc' = "done"
    /\ UNCHANGED <<topoVars, cisVars, test_mode, max_reader_search_attempts,
                   context, reader_search_attempts, reader_response>>

NextOrch ==
    \/ ProcessBegin
    \/ ReaderCall
    \/ SearcherCall
    \/ AfterLoop
    \/ WriterCall

\* process runs on one thread and every sub-agent call returns: a step
\* that can be taken is taken
SpecOrch == InitOrch /\ [][NextOrch]_vars /\ WF_vars(NextOrch)

---------------------------------------------------------------------------
(* Graph-theoretic vocabulary of the properties *)

\* the identifiers of a mapping: its keys and everything they refer to
ClosedNodes(d) == KeySet(d) \cup UNION {d.deps[k] : k \in KeySet(d)}

RECURSIVE Closure(_, _)
Closure(d, S) ==
    LET T == S \cup UNION {Get(d, x) : x \in S}
    IN IF T = S THEN S ELSE Closure(d, T)

\* the nodes reachable from n along at least one edge
ReachPlus(d, n) == Closure(d, Get(d, n))

\* some directed cycle (a self-loop included) exists
HasCycle(d) == \E n \in ClosedNodes(d) : n \in ReachPlus(d, n)

\* the strongly connected component of n
SccOf(d, n) == {n} \cup {m \in ReachPlus(d, n) : n \in ReachPlus(d, m)}

\* the components that are cycles: several members, or one with a self-loop
CyclicSccs(d) ==
    {SccOf(d, n) : n \in {m \in ClosedNodes(d) : m \in ReachPlus(d, m)}}

\* b occurs in the list s, a occurs in it, and every b is before every a
Before(s, b, a) ==
    /\ b \in Range(s)
    /\ a \in Range(s)
    /\ \A i, j \in 1..Len(s) : (s[i] = a /\ s[j] = b) => j < i

\* the list s holds every element of S exactly once and nothing else
IsPermutationOf(s, S) == Range(s) = S /\ Len(s) = Cardinality(S)

\* the caller's mapping as it would be with its keys inserted in order ord
ReKey(d, ord) == [keys |-> IterSet(KeySet(d), ord), deps |-> d.deps]

\* every order in which the elements of S can be iterated
SeqPerms(S) == {p \in [1..Cardinality(S) -> S] : Range(p) = S}

Returned(o) == pc = "done" /\ op = o

---------------------------------------------------------------------------
(* Properties *)

\* C1: the graph resolve_cycles returns has no cycle and no self-loop, and
\* detect_cycles of it is empty, unless resolve_cycles left through the
\* round-cap exit
C1_ResolvedIsAcyclic ==
    (Returned("resolve_cycles") /\ exit # "max_rounds")
        => /\ ~HasCycle(out_graph)
           /\ \A o \in IterOrders : DetectCycles(out_graph, o) = <<>>

C1_Witness ==
    /\ Returned("resolve_cycles")
    /\ exit = "no_cycles"
    /\ Len(removed_edges) >= 2
    /\ HasCycle(graph)

C4_OrderIsPermutation ==
    ((Returned("topological_sort") \/ Returned("dependency_first_dfs"))
        /\ exit = "no_cycles")
        => /\ IsPermutationOf(result, ClosedNodes(graph))
           /\ KeySet(acyclic_graph) = ClosedNodes(graph)
           /\ (KeySet(graph) = {} => result = <<>>)

C4_Witness ==
    /\ Returned("dependency_first_dfs")
    /\ exit = "no_cycles"
    /\ removed_edges # <<>>
    /\ ClosedNodes(graph) # KeySet(graph)
    /\ Len(result) >= 3

\* C5: detect_cycles returns exactly the strongly connected components of
\* the normalized mapping that have several members or a self-loop, each
\* once and whole; it returns nothing iff there is no directed cycle.
\* For the mappings over SparseNodes the groups are the same set under
\* every iteration order of the identifiers
C5_DetectIsCyclicSccs ==
    Returned("detect_cycles")
        => /\ {Range(cycles[i]) : i \in 1..Len(cycles)} = CyclicSccs(graph)
           /\ ClosedNodes(graph) \subseteq SparseNodes
                 => \A o \in SeqPerms(SparseNodes) :
                       LET cs == DetectCycles(ReKey(graph, o), o)
                       IN /\ {Range(cs[i]) : i \in 1..Len(cs)} = CyclicSccs(graph)
                          /\ Len(cs) = Cardinality(CyclicSccs(graph))
           /\ Len(cycles) = Cardinality(CyclicSccs(graph))
           /\ \A i \in 1..Len(cycles) :
                 Len(cycles[i]) = Cardinality(Range(cycles[i]))
           /\ \A i, j \in 1..Len(cycles) :
                 i # j => Range(cycles[i]) \cap Range(cycles[j]) = {}
           /\ (cycles = <<>>) <=> ~HasCycle(graph)

C5_Witness ==
    /\ Returned("detect_cycles")
    /\ Len(cycles) = 2
    /\ \E i, j \in 1..Len(cycles) : Len(cycles[i]) = 1 /\ Len(cycles[j]) = 2
    /\ \E n \in ClosedNodes(graph) : n \notin ReachPlus(graph, n)

\* C6: resolve_cycles runs detect_cycles at most max(10, 2 x node count)
\* times, where the nodes are those of the normalized mapping, and at the
\* bound it returns the partially resolved graph
C6_RoundsBounded ==
    /\ pc # "idle"
       /\ op \notin {"normalize", "build_graph_from_components", "detect_cycles"}
          => /\ max_rounds = Max2(10, 2 * Cardinality(ClosedNodes(graph)))
             /\ round_idx <= max_rounds
             /\ round_idx + (IF exit \in {"no_cycles", "no_progress"} THEN 1 ELSE 0)
                   <= max_rounds
    /\ (Returned("resolve_cycles") /\ exit = "max_rounds")
          => /\ round_idx = max_rounds
             /\ out_graph = new_graph
             /\ Len(removed_edges) >= max_rounds

C6_Witness ==
    /\ Returned("resolve_cycles")
    /\ exit = "max_rounds"
    /\ HasCycle(out_graph)

\* C7: resolve_cycles, topological_sort and dependency_first_dfs return the
\* same result whatever the order in which keys and sets are iterated
C7_OrderIndependent ==
    \A o \in IterOrders :
        /\ Returned("resolve_cycles")
              => out_graph.deps = ResolveCycles(ReKey(graph, o), o).deps
        /\ Returned("topological_sort")
              => result = TopologicalSort(ReKey(graph, o), o)
        /\ Returned("dependency_first_dfs")
              => result = DependencyFirstDfs(ReKey(graph, o), o)

\* C8: normalize returns a closed mapping: the keys are the input keys and
\* every successor, each original key keeps its successor set, each added
\* key has the empty set
C8_NormalizeClosed ==
    Returned("normalize")
        => /\ KeySet(out_graph) = ClosedNodes(graph)
           /\ DOMAIN out_graph.deps = KeySet(out_graph)
           /\ Len(out_graph.keys) = Cardinality(KeySet(out_graph))
           /\ \A k \in KeySet(out_graph) : out_graph.deps[k] \subseteq KeySet(out_graph)
           /\ \A k \in KeySet(graph) : out_graph.deps[k] = graph.deps[k]
           /\ \A k \in KeySet(out_graph) \ KeySet(graph) : out_graph.deps[k] = {}

C8_Witness ==
    /\ Returned("normalize")
    /\ Cardinality(KeySet(out_graph) \ KeySet(graph)) >= 2
    /\ KeySet(graph) # {}

\* C9: normalize is idempotent: normalizing the mapping normalize returned
\* gives that mapping again, also for the empty mapping
C9_NormalizeIdempotent ==
    Returned("normalize") => NormalizeGraph(out_graph, iter) = out_graph

C9_Witness ==
    /\ Returned("normalize")
    /\ out_graph # graph
    /\ Cardinality(KeySet(out_graph) \ KeySet(graph)) >= 2

\* C10: no operation changes the mapping the caller passed, whatever edges
\* it removes from its own copy
C10_CallerGraphUnchanged == [][graph' = graph]_vars

C10_Witness ==
    /\ pc = "done"
    /\ removed_edges # <<>>
    /\ Edges(new_graph) # Edges(graph)
    /\ graph.deps # new_graph.deps

\* C18: when the resolved graph still has a cycle, the heap of
\* topological_sort drains before every node is emitted, and the call
\* returns the drained prefix followed by the remaining nodes in ascending
\* order, a permutation of the node set
C18_ResidualCycleFallback ==
    [][(pc = "topo" /\ pc' = "done" /\ HasCycle(acyclic_graph)) =>
          /\ Len(result) < Len(acyclic_graph.keys)
          /\ result' = result \o Sorted(KeySet(acyclic_graph) \ Range(result))
          /\ IsPermutationOf(result', KeySet(acyclic_graph))]_vars

C18_Witness ==
    /\ Returned("topological_sort")
    /\ HasCycle(acyclic_graph)
    /\ exit = "max_rounds"
    /\ Len(result) = Len(acyclic_graph.keys)
    /\ \E i \in 1..Len(result) : in_degree[result[i]] > 0

\* the group of the round that holds node n, as a set
GroupOf(cs, n) == UNION {Range(cs[i]) : i \in {j \in 1..Len(cs) : n \in Range(cs[j])}}

\* the edge e is the one the lexicographic rule picks in group S of graph g
LexicographicChoice(g, S, e) ==
    LET loops == {u \in S : u \in Get(g, u)}
    IN IF loops # {}
       THEN e = <<Min(loops), Min(loops)>>
       ELSE /\ e[1] = Min(S)
            /\ Get(g, e[1]) \cap S # {}
            /\ e[2] = Min(Get(g, e[1]) \cap S)

\* the mapping {A: {B}, B: {A}}
TwoCycle(d) == KeySet(d) = {1, 2} /\ d.deps[1] = {2} /\ d.deps[2] = {1}

\* C19: every edge a round of resolve_cycles removes lies in a group of
\* that round and is the self-loop of the smallest node of the group that
\* has one, or else the edge from the smallest node of the group to its
\* smallest successor in the group; on {A: {B}, B: {A}} exactly A->B is
\* removed, leaving {A: {}, B: {A}}
C19_LexicographicRemoval ==
    [][/\ (pc = "resolve" /\ removed_edges' # removed_edges) =>
              \A i \in (Len(removed_edges) + 1)..Len(removed_edges') :
                 LET e == removed_edges'[i]
                 IN /\ GroupOf(cycles', e[1]) # {}
                    /\ LexicographicChoice(new_graph, GroupOf(cycles', e[1]), e)
       /\ (pc = "resolved" /\ op' = "resolve_cycles" /\ TwoCycle(graph)) =>
              /\ removed_edges = <<(<<1, 2>>)>>
              /\ KeySet(out_graph') = {1, 2}
              /\ out_graph'.deps[1] = {}
              /\ out_graph'.deps[2] = {1}]_vars

C19_Witness ==
    /\ Returned("resolve_cycles")
    /\ TwoCycle(graph)
    /\ removed_edges = <<(<<1, 2>>)>>

\* C20: a round of resolve_cycles in which detect_cycles reported k groups
\* removes exactly k edges, one from each group
C20_OneEdgePerGroup ==
    [][(pc = "resolve" /\ round_idx < max_rounds) =>
          /\ Len(removed_edges') - Len(removed_edges) = Len(cycles')
          /\ \A j \in 1..Len(cycles') :
                \E i \in (Len(removed_edges) + 1)..Len(removed_edges') :
                   removed_edges'[i][1] \in Range(cycles'[j])]_vars

\* C11: the graph build_graph_from_components returns has exactly the
\* component identifiers as keys, each with its depends_on restricted to
\* the component identifiers (a self-dependency stays as a self-loop), so
\* the graph is closed
C11_BuildGraphRestricted ==
    Returned("build_graph_from_components") =>
        /\ KeySet(out_graph) = KeySet(graph)
        /\ Len(out_graph.keys) = Cardinality(KeySet(graph))
        /\ \A n \in KeySet(graph) :
              /\ out_graph.deps[n] = graph.deps[n] \cap KeySet(graph)
              /\ (n \in graph.deps[n] => n \in out_graph.deps[n])
        /\ ClosedNodes(out_graph) = KeySet(out_graph)

C11_Witness ==
    /\ Returned("build_graph_from_components")
    /\ \E n \in KeySet(graph) :
          /\ n \in out_graph.deps[n]
          /\ graph.deps[n] \ KeySet(graph) # {}
          /\ out_graph.deps[n] # graph.deps[n]

---------------------------------------------------------------------------
(* Vocabulary of the centrality properties *)

CisReturned(o) == cop = o /\ cpc = "done"

\* the sum of f over the finite set S
RECURSIVE SumOver(_, _)
SumOver(f, S) ==
    IF S = {} THEN RInt(0)
    ELSE LET x == CHOOSE y \in S : TRUE IN RAdd(f[x], SumOver(f, S \ {x}))

\* the number of walks of exactly len edges from s to t
RECURSIVE Walks(_, _, _, _)
Walks(g, s, t, len) ==
    IF len = 0 THEN (IF s = t THEN 1 ELSE 0)
    ELSE SumOver([w \in KeySet(g) |-> RInt(Walks(g, w, t, len - 1))], g.deps[s]).n

\* the lengths of the walks from s to t, up to the number of nodes
WalkLengths(g, s, t) == {len \in 0..Len(g.keys) : Walks(g, s, t, len) > 0}

\* the number of shortest paths from s to t through v, over their number
ThroughFraction(g, s, t, v) ==
    IF WalkLengths(g, s, t) = {} \/ WalkLengths(g, s, v) = {} \/ WalkLengths(g, v, t) = {}
    THEN RInt(0)
    ELSE LET dst == Min(WalkLengths(g, s, t))
             dsv == Min(WalkLengths(g, s, v))
             dvt == Min(WalkLengths(g, v, t))
         IN IF dsv + dvt # dst THEN RInt(0)
            ELSE Rat(Walks(g, s, v, dsv) * Walks(g, v, t, dvt), Walks(g, s, t, dst))

\* the unnormalised directed betweenness of v
DirectedBetweenness(g, v) ==
    LET pairs == {st \in KeySet(g) \X KeySet(g) : st[1] # v /\ st[2] # v /\ st[1] # st[2]}
    IN SumOver([st \in pairs |-> ThroughFraction(g, st[1], st[2], v)], pairs)

\* the mapping {A: {B}, B: {C}, C: {}}
PathGraph(d) ==
    KeySet(d) = {1, 2, 3} /\ d.deps[1] = {2} /\ d.deps[2] = {3} /\ d.deps[3] = {}

\* node a ranks above node b: higher score, or the same score and a
\* smaller identifier
RanksAbove(m, a, b) == RLt(m[b], m[a]) \/ (m[b] = m[a] /\ a < b)

---------------------------------------------------------------------------
(* Properties of the centrality filter *)

\* C12: select_top_percent(metrics, p) returns the empty sequence for
\* every p <= 0 and every node identifier in ascending order for every
\* p >= 100, whatever the scores
C12_SelectExtremes ==
    CisReturned("select_top_percent") =>
        /\ (top_percent <= 0 => selected = <<>>)
        /\ (top_percent >= 100 =>
               /\ IsPermutationOf(selected, DOMAIN metrics)
               /\ \A i, j \in 1..Len(selected) : i < j => selected[i] < selected[j])

C12_Witness ==
    /\ CisReturned("select_top_percent")
    /\ top_percent >= 100
    /\ Len(selected) >= 2
    /\ RLt(metrics[selected[1]], metrics[selected[2]])

\* C13: for 0 < p < 100 and N nodes select_top_percent returns the first k
\* nodes of the ranking by descending score, ties by ascending identifier,
\* with k = ceil(N * p / 100) clamped to 1..N (nothing when N = 0), so
\* every node returned ranks above every node left out
C13_KeepsCeilOfShare ==
    (CisReturned("select_top_percent") /\ 0 < top_percent /\ top_percent < 100) =>
        LET ids == DOMAIN metrics
            N == Cardinality(ids)
            k == IF N = 0 THEN 0
                 ELSE Max2(1, Min2((N * top_percent + 99) \div 100, N))
        IN /\ Len(selected) = k
           /\ Range(selected) \subseteq ids
           /\ \A i, j \in 1..Len(selected) :
                 i < j => RanksAbove(metrics, selected[i], selected[j])
           /\ \A a \in Range(selected), b \in ids \ Range(selected) :
                 RanksAbove(metrics, a, b)

\* C14: with samples = 0 every node is a source of compute_betweenness and
\* the value returned for each node v is the sum, over the ordered pairs
\* (s, t) with s # v # t, of the fraction of the shortest paths from s to t
\* that pass through v; on the path A -> B -> C it is positive for B and 0
\* for A and for C
C14_ExactBetweenness ==
    (CisReturned("compute_betweenness") /\ samples = 0 /\ Len(out_edges.keys) > 0) =>
        /\ sources = [i \in 1..Len(out_edges.keys) |-> i]
        /\ \A v \in KeySet(out_edges) :
              betweenness[v] = DirectedBetweenness(out_edges, v)
        /\ PathGraph(out_edges) =>
              /\ RLt(RInt(0), betweenness[2])
              /\ betweenness[1] = RInt(0)
              /\ betweenness[3] = RInt(0)

C14_Witness ==
    /\ CisReturned("compute_betweenness")
    /\ samples = 0
    /\ Len(out_edges.keys) = 4
    /\ \E v, w \in KeySet(out_edges) :
          v # w /\ betweenness[v] = Rat(1, 2) /\ betweenness[w] = Rat(1, 2)

\* C15: on a non-empty graph the ranks of compute_pagerank sum to 1, from
\* the uniform start 1/N through every iteration to the mapping returned
C15_RankSumsToOne ==
    (cop = "compute_pagerank" /\ Len(out_edges.keys) > 0) =>
        /\ (cpc \in {"pr_loop", "pr_break"} =>
               /\ SumOver(rank, KeySet(out_edges)) = RInt(1)
               /\ (pr_iter = 0 =>
                      \A v \in KeySet(out_edges) : rank[v] = Rat(1, Len(out_edges.keys))))
        /\ (cpc = "done" =>
               /\ DOMAIN pagerank = KeySet(out_edges)
               /\ SumOver(pagerank, KeySet(out_edges)) = RInt(1))

C15_Witness ==
    /\ CisReturned("compute_pagerank")
    /\ pr_iter = 2
    /\ \E v \in KeySet(out_edges) : out_edges.deps[v] = {}
    /\ \E v, w \in KeySet(out_edges) : RLt(pagerank[v], pagerank[w])

\* the integers a <= b are close for math.isclose: b - a <= 1e-09 * b
CloseIntegers(a, b) == b.n - a.n <= b.n \div (10 ^ 9)

\* C16 as stated: every value is mapped into [0, 1], the minimum to 0 and
\* the maximum to 1 when the values are not all identical, every node to 0
\* when they are; one value per node
C16_MinMaxIdentical ==
    CisReturned("_min_max_normalize") =>
        LET vs == {values[k] : k \in DOMAIN values}
        IN /\ DOMAIN normalized = DOMAIN values
           /\ \A k \in DOMAIN values :
                 /\ RLe(RInt(0), normalized[k])
                 /\ RLe(normalized[k], RInt(1))
                 /\ (Cardinality(vs) > 1 /\ values[k] = RMin(vs) => normalized[k] = RInt(0))
                 /\ (Cardinality(vs) > 1 /\ values[k] = RMax(vs) => normalized[k] = RInt(1))
                 /\ (Cardinality(vs) = 1 => normalized[k] = RInt(0))

\* C16: every value is mapped into [0, 1], the minimum to 0 and the
\* maximum to 1 when minimum and maximum are not close (relative tolerance
\* 1e-09), every node to 0 when they are close, identical values included;
\* one value per node
C16_MinMaxClose ==
    CisReturned("_min_max_normalize") =>
        LET vs == {values[k] : k \in DOMAIN values}
        IN /\ DOMAIN normalized = DOMAIN values
           /\ \A k \in DOMAIN values :
                 /\ RLe(RInt(0), normalized[k])
                 /\ RLe(normalized[k], RInt(1))
                 /\ IF CloseIntegers(RMin(vs), RMax(vs))
                    THEN normalized[k] = RInt(0)
                    ELSE /\ values[k] = RMin(vs) => normalized[k] = RInt(0)
                         /\ values[k] = RMax(vs) => normalized[k] = RInt(1)

C16_Witness ==
    /\ CisReturned("_min_max_normalize")
    /\ \E j, k \in DOMAIN values :
          /\ RLt(values[j], values[k])
          /\ normalized[j] = RInt(0)
          /\ normalized[k] = RInt(0)

\* C17: a run of main given both --print-top and a positive
\* --print-top-percent ends in the usage error, whatever the components
C17_ConflictIsFatal ==
    (CisReturned("main") /\ args.print_top # <<>> /\ args.print_top_percent > 0) =>
        status = "usage_error"

---------------------------------------------------------------------------
(* Properties of the graph engine, continued *)

\* C21: resolve_cycles leaves through the round-cap exit only when the
\* graph it returns still has a cycle; a graph that became acyclic within
\* the round budget is returned through the no-cycles exit
C21_CapOnlyWithCycle ==
    /\ (Returned("resolve_cycles") /\ exit = "max_rounds") => HasCycle(out_graph)
    /\ (Returned("resolve_cycles") /\ ~HasCycle(out_graph)) => exit = "no_cycles"

\* the nodes not in done whose dependencies are all in done
ReadyAfter(g, done) == {n \in KeySet(g) \ done : g.deps[n] \subseteq done}

\* the orders of the nodes of g in which every dependency comes first
TopoOrders(g) ==
    {p \in SeqPerms(KeySet(g)) : \A e \in Edges(g) : Before(p, e[2], e[1])}

\* the list p is before the list q of the same length, or equal to it
LexLe(p, q) ==
    \/ p = q
    \/ \E i \in 1..Len(p) :
          /\ p[i] < q[i]
          /\ \A j \in 1..(i - 1) : p[j] = q[j]

\* C22: every node topological_sort pops is the smallest node not yet
\* emitted whose dependencies have all been emitted, and the heap is empty
\* only when there is no such node; on an acyclic graph (checked against
\* every order of the mappings over SparseNodes) the list returned is the
\* lexicographically smallest dependencies-first order, and for
\* {A: {B}, B: {C}, C: {}} it is [C, B, A]
C22_SmallestReadyFirst ==
    [][/\ (pc = "topo" /\ heap # {}) =>
              /\ ReadyAfter(acyclic_graph, Range(result)) # {}
              /\ result' = Append(result,
                                  Min(ReadyAfter(acyclic_graph, Range(result))))
       /\ (pc = "topo" /\ heap = {}) =>
              ReadyAfter(acyclic_graph, Range(result)) = {}
       /\ (pc = "topo" /\ pc' = "done" /\ ~HasCycle(acyclic_graph)) =>
              /\ KeySet(acyclic_graph) \subseteq SparseNodes =>
                     /\ result' \in TopoOrders(acyclic_graph)
                     /\ \A q \in TopoOrders(acyclic_graph) : LexLe(result', q)
              /\ PathGraph(graph) => result' = <<3, 2, 1>>]_vars

C22_Witness ==
    /\ Returned("topological_sort")
    /\ ~HasCycle(acyclic_graph)
    /\ KeySet(acyclic_graph) \subseteq SparseNodes
    /\ Cardinality(TopoOrders(acyclic_graph)) >= 2
    /\ result # Sorted(KeySet(acyclic_graph))
    /\ Len(result) >= 3

\* C23: every edge resolve_cycles removes lies on a cycle of the input, so
\* every edge of the normalized input whose endpoints are in different
\* strongly connected components is in the result; for an acyclic input
\* nothing is removed and the result is the normalized input
C23_OnlyCycleEdgesRemoved ==
    Returned("resolve_cycles") =>
        LET n == NormalizeGraph(graph, iter)
        IN /\ \A i \in 1..Len(removed_edges) :
                 /\ removed_edges[i] \in Edges(n)
                 /\ removed_edges[i][1] \in Closure(graph, {removed_edges[i][2]})
           /\ \A e \in Edges(n) :
                 SccOf(graph, e[1]) # SccOf(graph, e[2]) => e \in Edges(out_graph)
           /\ ~HasCycle(graph) =>
                 /\ removed_edges = <<>>
                 /\ out_graph = n

C23_Witness ==
    /\ Returned("resolve_cycles")
    /\ removed_edges # <<>>
    /\ \E e \in Edges(out_graph) :
          /\ SccOf(graph, e[1]) # SccOf(graph, e[2])
          /\ Cardinality(SccOf(graph, e[1])) >= 2

\* the mapping g has the keys of n, in the same order, and under every key
\* a subset of the successors n has there
SameNodesFewerEdges(g, n) ==
    /\ g.keys = n.keys
    /\ DOMAIN g.deps = DOMAIN n.deps
    /\ \A k \in KeySet(n) : g.deps[k] \subseteq n.deps[k]

\* C27: in every round of resolve_cycles and in the mapping it returns,
\* the nodes are exactly those of the normalized input and every successor
\* set is a subset of the one in the normalized input; no step adds an edge
C27_SameNodesFewerEdges ==
    [][/\ pc' \in {"resolve", "resolved"} =>
              SameNodesFewerEdges(new_graph', NormalizeGraph(graph, iter))
       /\ (pc = "resolve" /\ pc' \in {"resolve", "resolved"}) =>
              /\ KeySet(new_graph') = KeySet(new_graph)
              /\ Edges(new_graph') \subseteq Edges(new_graph)
       /\ (pc' = "done" /\ op' = "resolve_cycles") =>
              SameNodesFewerEdges(out_graph', NormalizeGraph(graph, iter))]_vars

C27_Witness ==
    /\ Returned("resolve_cycles")
    /\ Len(removed_edges) >= 2
    /\ ClosedNodes(graph) # KeySet(graph)
    /\ \E k \in KeySet(out_graph) :
          out_graph.deps[k] = {} /\ Get(graph, k) # {}

\* C28: a round of resolve_cycles in which detect_cycles reports a group
\* removes at least one edge, the first of them from the first group
\* reported, so the working graph has fewer edges after the round; the
\* call never leaves through the no-progress exit
C28_EveryRoundProgresses ==
    [][/\ (pc = "resolve" /\ round_idx < max_rounds /\ cycles' # <<>>) =>
              /\ Len(removed_edges') > Len(removed_edges)
              /\ removed_edges'[Len(removed_edges) + 1][1] \in Range(cycles'[1])
              /\ removed_edges'[Len(removed_edges) + 1][2] \in Range(cycles'[1])
              /\ Cardinality(Edges(new_graph')) < Cardinality(Edges(new_graph))
              /\ round_idx' = round_idx + 1
       /\ exit' # "no_progress"]_vars

C28_Witness ==
    /\ pc = "resolve"
    /\ round_idx >= 2
    /\ Len(cycles) >= 2
    /\ Len(removed_edges) = round_idx
    /\ HasCycle(new_graph)

\* C29: when the graph dependency_first_dfs traverses still has a cycle,
\* the call returns, and the list it returns holds every node of that
\* graph, which are the identifiers of the input, exactly once
C29_DfsTotalOnResidualCycle ==
    [][(pc = "resolved" /\ op' = "dependency_first_dfs"
           /\ HasCycle(acyclic_graph')) =>
          /\ pc' = "done"
          /\ IsPermutationOf(result', KeySet(acyclic_graph'))
          /\ KeySet(acyclic_graph') = ClosedNodes(graph)]_vars

C29_Witness ==
    /\ Returned("dependency_first_dfs")
    /\ exit = "max_rounds"
    /\ HasCycle(acyclic_graph)
    /\ \E e \in Edges(acyclic_graph) :
          e[1] # e[2] /\ Before(result, e[1], e[2])

---------------------------------------------------------------------------
(* Properties of the centrality filter, continued *)

\* the dependency of the sources S on v: the sum, over the pairs (s, t)
\* with s in S and s # v # t, of the fraction of the shortest paths from s
\* to t that pass through v
SampledBetweenness(g, v, S) ==
    LET pairs == {st \in S \X KeySet(g) : st[1] # v /\ st[2] # v /\ st[1] # st[2]}
    IN SumOver([st \in pairs |-> ThroughFraction(g, st[1], st[2], v)], pairs)

\* C24: with samples > 0 compute_betweenness runs over min(samples, N)
\* pairwise distinct sources and returns, for each node, the dependency
\* accumulated over these sources times N / (number of sources); with
\* samples >= N the sources are all nodes, each once, the scale is 1 and
\* the result is the exact one
C24_SampledSources ==
    (CisReturned("compute_betweenness") /\ samples > 0 /\ Len(out_edges.keys) > 0) =>
        LET N == Len(out_edges.keys)
            S == {out_edges.keys[sources[i]] : i \in 1..Len(sources)}
        IN /\ Len(sources) = Min2(samples, N)
           /\ src_idx = Len(sources)
           /\ \A i \in 1..Len(sources) : sources[i] \in 1..N
           /\ \A i, j \in 1..Len(sources) : sources[i] = sources[j] => i = j
           /\ \A v \in KeySet(out_edges) :
                 betweenness[v] =
                     RMul(cb[IndexOf(out_edges, v)], Rat(N, Len(sources)))
           /\ samples < N =>
                 \A v \in KeySet(out_edges) :
                    cb[IndexOf(out_edges, v)] = SampledBetweenness(out_edges, v, S)
           /\ samples >= N =>
                 /\ S = KeySet(out_edges)
                 /\ betweenness =
                       ComputeBetweenness(out_edges, iter, 0, [i \in 1..N |-> i])

C24_Witness ==
    /\ CisReturned("compute_betweenness")
    /\ samples = 2
    /\ Len(out_edges.keys) = 3
    /\ sources[1] > sources[2]
    /\ \E v \in KeySet(out_edges) :
          RLt(DirectedBetweenness(out_edges, v), betweenness[v])

\* the per-node buffers of b are as they were created, and its queue and
\* stack are empty
BuffersInitial(b, n) ==
    /\ b.q = <<>>
    /\ b.stack = <<>>
    /\ \A i \in 1..n :
          /\ b.dist[i] = -1
          /\ b.sigma[i] = 0
          /\ b.delta[i] = RInt(0)
          /\ b.pred[i] = <<>>

\* the nodes of b whose buffers differ from their initial value
Written(b, n) ==
    {i \in 1..n : \/ b.dist[i] # -1
                  \/ b.sigma[i] # 0
                  \/ b.delta[i] # RInt(0)
                  \/ b.pred[i] # <<>>}

\* C25: at the start of the pass of every source of compute_betweenness,
\* and after the last, the buffers are in their initial state: dist -1,
\* sigma 0, delta 0 and no predecessors for every node, queue and stack
\* empty; every node the pass writes to is in the touched list it resets
C25_BuffersReset ==
    [][(cop = "compute_betweenness" /\ cpc = "bc_loop"
           /\ src_idx < Len(sources)) =>
          LET n == Len(out_edges.keys)
              s == sources[src_idx + 1]
              mid == Accumulate([b |-> Bfs(Adjacency(out_edges, iter),
                                           StartPass(buf, s)),
                                 cb |-> cb], s).b
          IN /\ BuffersInitial(buf, n)
             /\ Written(mid, n) \subseteq Range(mid.touched)
             /\ Written(mid, n) # {}
             /\ BuffersInitial(buf', n)]_vars

C25_Witness ==
    /\ cop = "compute_betweenness"
    /\ cpc = "bc_loop"
    /\ src_idx >= 2
    /\ src_idx < Len(sources)
    /\ Len(buf.touched) >= 3
    /\ \E i \in 1..Len(cb) : cb[i] # RInt(0)

\* C26: when main reaches the check of --print-top against
\* --print-top-percent the output file is already written and holds
\* exactly the components select_top_percent chose for --top-percent; the
\* check does not touch it, so a run that ends in the usage error leaves
\* that file behind
C26_WrittenBeforeCheck ==
    [][(cop = "main" /\ cpc = "main_check") =>
          /\ written # "nothing"
          /\ written = selected
          /\ selected = SelectTopPercent(metrics, args.top_percent)
          /\ Range(written) \subseteq KeySet(components)
          /\ written' = written
          /\ (args.print_top # <<>> /\ args.print_top_percent > 0) =>
                 /\ status' = "usage_error"
                 /\ cpc' = "done"]_vars

C26_Witness ==
    /\ CisReturned("main")
    /\ status = "usage_error"
    /\ args.top_percent = 50
    /\ Len(written) = 2
    /\ Len(components.keys) = 3

---------------------------------------------------------------------------
(* Properties of Orchestrator.process *)

\* the number of calls of agent a so far
CallsOf(a) == Cardinality({i \in 1..Len(invoked) : invoked[i] = a})

\* the calls so far fit a loop of at most limit searches: at most limit
\* Searcher calls and limit + 1 Reader calls, a Reader call after every
\* Searcher call once the loop is left, and after the loop one Writer call,
\* the last call, right after the last Reader call (none in the
\* reader_searcher test mode)
LoopWithin(limit) ==
    /\ CallsOf("searcher") <= limit
    /\ CallsOf("reader") <= limit + 1
    /\ CallsOf("writer") <= 1
    /\ \A i \in 1..Len(invoked) :
          /\ invoked[i] = "searcher" =>
                 /\ i > 1 /\ invoked[i - 1] = "reader"
                 /\ i < Len(invoked) => invoked[i + 1] = "reader"
                 /\ opc \in {"after_loop", "writer", "done"} => i < Len(invoked)
          /\ invoked[i] = "writer" =>
                 /\ i = Len(invoked)
                 /\ i > 1 /\ invoked[i - 1] = "reader"
    /\ opc = "done" =>
          /\ CallsOf("reader") >= 1
          /\ IF test_mode = "reader_searcher"
             THEN CallsOf("writer") = 0 /\ output = reader_response
             ELSE CallsOf("writer") = 1 /\ output = WriterOutput

====
